---- MODULE Spec2Model ----
(***************************************************************************)
(* Model of the catalog directory service: buildings, a category tree     *)
(* kept with a materialized path, and companies.  The store is the         *)
(* committed content of the three tables (src/models.py); every request    *)
(* handler of src/routers is an action.  Names follow the source.          *)
(*                                                                         *)
(* Left out of the rows: name, address, description, website, email and    *)
(* the timestamps, which no handler reads to decide anything.              *)
(***************************************************************************)
EXTENDS Integers, Sequences, FiniteSets, TLC

VARIABLES
    buildings,   \* table buildings:  id -> [latitude, longitude]
    categories,  \* table categories: id -> [id, parent_id, level, path]
    companies,   \* table companies:  id -> [phones, building_id, is_active,
                 \*                          categories]
    inserts,     \* rows inserted so far by the create handlers (bounds the run)
    reqs,        \* requests in flight (interleaved and stepwise runs only)
    resp         \* the last response sent, with the request it answers

vars == <<buildings, categories, companies, inserts, reqs, resp>>

----------------------------------------------------------------------------
(* Bounds of the model. *)

\* create_category inserts in one run
MaxInserts == 3

\* create_category requests that may be in flight together
MaxInFlight == 2

\* create_building / create_company inserts in one run
MaxRows == 4

----------------------------------------------------------------------------
(* Python values. *)

\* Optional[T]: None, or a value wrapped so that it never equals None
None == <<>>
Some(v) == <<v>>

\* truth value of an Optional[int]: None and 0 are falsy
TruthyInt(o) == o # None /\ o[1] # 0

\* truth value of an Optional[str]: None and "" are falsy
TruthyStr(o) == o # None /\ o[1] # <<>>

\* A str is the sequence of its characters.
Digits == <<"0", "1", "2", "3", "4", "5", "6", "7", "8", "9">>

RECURSIVE str(_)
\* str(n) of an int: its decimal digits, "-" first when negative
str(n) ==
    IF n < 0 THEN <<"-">> \o str(0 - n)
    ELSE IF n < 10 THEN <<Digits[n + 1]>>
    ELSE str(n \div 10) \o <<Digits[(n % 10) + 1]>>

Range(s) == {s[i] : i \in DOMAIN s}

RECURSIVE SortedSeq(_)
\* the elements of a finite set of integers, ascending (rowid order)
SortedSeq(S) ==
    IF S = {} THEN <<>>
    ELSE LET m == CHOOSE x \in S : \A y \in S : x <= y
         IN <<m>> \o SortedSeq(S \ {m})

\* the id SQLite gives the next row of a table whose primary key is an
\* INTEGER column: one more than the largest id present, 1 in an empty table
NextId(table) ==
    IF DOMAIN table = {} THEN 1
    ELSE (CHOOSE x \in DOMAIN table : \A y \in DOMAIN table : y <= x) + 1

\* the table with one row added or replaced
Put(table, id, row) ==
    [k \in DOMAIN table \cup {id} |-> IF k = id THEN row ELSE table[k]]

\* the table without the rows of ids
Without(table, ids) == [k \in DOMAIN table \ ids |-> table[k]]

EmptyTable == [k \in {} |-> None]

RECURSIVE Like(_, _)
\* SQL  s LIKE pat : "%" matches any run of characters, "_" any one
\* character, anything else itself
Like(s, pat) ==
    IF pat = <<>> THEN s = <<>>
    ELSE IF Head(pat) = "%"
         THEN Like(s, Tail(pat)) \/ (s # <<>> /\ Like(Tail(s), pat))
    ELSE IF Head(pat) = "_"
         THEN s # <<>> /\ Like(Tail(s), Tail(pat))
    ELSE s # <<>> /\ Head(s) = Head(pat) /\ Like(Tail(s), Tail(pat))

\* the index of the first occurrence of the character sep in s, 0 if none
Find(s, sep) ==
    IF \E i \in DOMAIN s : s[i] = sep
    THEN CHOOSE i \in DOMAIN s : s[i] = sep /\ \A j \in 1..(i - 1) : s[j] # sep
    ELSE 0

RECURSIVE Join(_, _)
\* sep.join(list) for a one-character separator
Join(list, sep) ==
    IF list = <<>> THEN <<>>
    ELSE IF Len(list) = 1 THEN list[1]
    ELSE list[1] \o <<sep>> \o Join(Tail(list), sep)

RECURSIVE Split(_, _)
\* s.split(sep) for a one-character separator: the pieces between the
\* occurrences of sep, one piece (s itself) when there is none
Split(s, sep) ==
    IF Find(s, sep) = 0 THEN <<s>>
    ELSE <<SubSeq(s, 1, Find(s, sep) - 1)>>
            \o Split(SubSeq(s, Find(s, sep) + 1, Len(s)), sep)

----------------------------------------------------------------------------
(* src/utils.py *)

\* update_category_path building every path from the parent's id alone, as
\* if the parent were always a root
update_category_path_parent_id_only(cats, category) ==
    IF TruthyInt(category.parent_id)
    THEN IF category.parent_id[1] \in DOMAIN cats
         THEN LET parent == cats[category.parent_id[1]]
              IN [category EXCEPT
                    !.path = Some(str(parent.id) \o <<"/">> \o str(category.id)),
                    !.level = parent.level + 1]
         ELSE category
    ELSE [category EXCEPT !.path = Some(str(category.id)), !.level = 0]

\* update_category_path(db, category): the category row as the call leaves it
update_category_path(cats, category) ==
    IF TruthyInt(category.parent_id)
    THEN IF category.parent_id[1] \in DOMAIN cats
         THEN LET parent == cats[category.parent_id[1]]
              IN [category EXCEPT
                    !.path = Some(IF TruthyStr(parent.path)
                                  THEN parent.path[1] \o <<"/">> \o str(category.id)
                                  ELSE str(parent.id) \o <<"/">> \o str(category.id)),
                    !.level = parent.level + 1]
         ELSE category
    ELSE [category EXCEPT !.path = Some(str(category.id)), !.level = 0]

\* the query with the delimiter left out of the pattern: path LIKE '<path>%'
PathFilter_no_delimiter(cats, path) ==
    {id \in DOMAIN cats :
        /\ cats[id].path # None
        /\ \/ Like(cats[id].path[1], path \o <<"%">>)
           \/ cats[id].path[1] = path}

\* the rows the query of get_all_child_category_ids selects for a path:
\* path LIKE '<path>/%' OR path = '<path>'; a NULL path matches neither
PathFilter(cats, path) ==
    {id \in DOMAIN cats :
        /\ cats[id].path # None
        /\ \/ Like(cats[id].path[1], path \o <<"/", "%">>)
           \/ cats[id].path[1] = path}

\* the comprehension without its  child.id != category_id  condition
ChildIds_unfiltered(children, category_id) == children

\* the ids the comprehension keeps out of the selected rows
ChildIds(children, category_id) ==
    SelectSeq(children, LAMBDA id : id # category_id)

\* get_all_child_category_ids starting from an empty list and counting on
\* the query's  path = '<path>'  row to bring the category itself
get_all_child_category_ids_query_only(cats, category_id) ==
    IF category_id \in DOMAIN cats /\ TruthyStr(cats[category_id].path)
    THEN SortedSeq(PathFilter(cats, cats[category_id].path[1]))
    ELSE <<>>

\* get_all_child_category_ids(db, category_id): the list returned
get_all_child_category_ids(cats, category_id) ==
    IF category_id \in DOMAIN cats /\ TruthyStr(cats[category_id].path)
    THEN <<category_id>> \o
         ChildIds(SortedSeq(PathFilter(cats, cats[category_id].path[1])), category_id)
    ELSE <<category_id>>

\* calculate_distance_haversine(lat1, lon1, lat2, lon2) on the coordinates
\* the requests of this model carry, in millionths of a degree: the value
\* the function returns there, in metres (kilometres * 1000, rounded).
\* From (55.7512, 37.6184) and from (56.2012, 37.6184) to each building
\* position in use.
calculate_distance_haversine(lat1, lon1, lat2, lon2) ==
    LET to == <<lat2, lon2>>
        row == IF <<lat1, lon1>> = <<55751200, 37618400>>
               THEN <<3002, 50038, 0, 5, 133, 260, 123, 388>>
               ELSE <<47035, 0, 50038, 50033, 49922, 49811, 50144, 49700>>
    IN CASE to = <<55778200, 37618400>> -> row[1]
         [] to = <<56201200, 37618400>> -> row[2]
         [] to = <<55751200, 37618400>> -> row[3]
         [] to = <<55751244, 37618423>> -> row[4]
         [] to = <<55752244, 37619423>> -> row[5]
         [] to = <<55753244, 37620423>> -> row[6]
         [] to = <<55750244, 37617423>> -> row[7]
         [] to = <<55754244, 37621423>> -> row[8]

----------------------------------------------------------------------------
(* src/routers/test_data.py *)

\* a coordinate is kept in millionths of a degree (55.751244 is 55751244)
TestBuildings ==
    [id \in 1..5 |->
        [latitude  |-> <<55751244, 55752244, 55753244, 55750244, 55754244>>[id],
         longitude |-> <<37618423, 37619423, 37620423, 37617423, 37621423>>[id]]]

\* the rows of the category hierarchy: parent, level and the path written
\* once the ids are known (the tables were emptied, so the ids start at 1)
TestCategories ==
    LET root(id) == [id |-> id, parent_id |-> None, level |-> 0,
                     path |-> Some(str(id))]
        sub(id, p) == [id |-> id, parent_id |-> Some(p), level |-> 1,
                       path |-> Some(str(p) \o <<"/">> \o str(id))]
        subsub(id, p, g) == [id |-> id, parent_id |-> Some(p), level |-> 2,
                             path |-> Some(str(g) \o <<"/">> \o str(p)
                                                  \o <<"/">> \o str(id))]
    IN [id \in 1..11 |->
          IF id \in 1..3 THEN root(id)        \* food, auto, sport
          ELSE IF id \in 4..6 THEN sub(id, 1)  \* meat, semifinished, vegetables
          ELSE IF id \in 7..9 THEN sub(id, 2)  \* truck, car, parts
          ELSE subsub(id, 9, 2)]               \* suspension, tires

\* the phone numbers of the six companies; the phones column of each is
\* written in the source as these numbers joined with ","
TestPhones ==
    <<
          <<<<"2", "-", "2", "2", "2", "-", "2", "2", "2">>,
             <<"3", "-", "3", "3", "3", "-", "3", "3", "3">>,
             <<"8", "-", "9", "2", "3", "-", "6", "6", "6", "-", "1", "3", "-", "1", "3">>>>,
          <<<<"8", "-", "8", "0", "0", "-", "5", "5", "5", "-", "3", "5", "-", "3", "5">>,
             <<"4", "9", "5", "-", "1", "2", "3", "-", "4", "5", "-", "6", "7">>>>,
          <<<<"8", "-", "9", "1", "2", "-", "3", "4", "5", "-", "6", "7", "-", "8", "9">>>>,
          <<<<"8", "-", "4", "9", "5", "-", "1", "1", "1", "-", "2", "2", "-", "3", "3">>,
             <<"8", "-", "4", "9", "5", "-", "4", "4", "4", "-", "5", "5", "-", "6", "6">>>>,
          <<<<"8", "-", "9", "1", "6", "-", "7", "7", "7", "-", "8", "8", "-", "9", "9">>>>,
          <<<<"8", "-", "4", "9", "9", "-", "1", "2", "3", "-", "4", "5", "-", "6", "7">>>>
    >>

TestCompanies ==
    [id \in 1..6 |->
        [phones      |-> Join(TestPhones[id], ","),
         building_id |-> <<1, 2, 3, 4, 5, 1>>[id],
         is_active   |-> 1,
         categories  |-> <<{4, 5}, {8}, {7}, {11}, {6}, {10}>>[id]]]

\* POST /test-data/generate, when every step succeeds
generate_test_data ==
    /\ buildings' = TestBuildings
    /\ categories' = TestCategories
    /\ companies' = TestCompanies
    /\ resp' = [op |-> "generate_test_data", status |-> 200]
    /\ UNCHANGED <<inserts, reqs>>

----------------------------------------------------------------------------
(* src/routers/categories.py *)

\* the parent check of create_category: a truthy parent_id naming no row
ParentMissing(cats, parent_id) ==
    TruthyInt(parent_id) /\ parent_id[1] \notin DOMAIN cats

\* the row create_category inserts: the store assigns the id, level takes
\* the column default 0 and path is NULL
NewCategory(cats, parent_id) ==
    [id |-> NextId(cats), parent_id |-> parent_id, level |-> 0, path |-> None]

\* POST /categories, run from its first line to its last with no other
\* request in between
create_category(parent_id) ==
    /\ reqs = <<>>
    /\ IF ParentMissing(categories, parent_id)
       THEN /\ resp' = [op |-> "create_category", parent_id |-> parent_id,
                        status |-> 404, body |-> None]
            /\ UNCHANGED <<categories, inserts>>
       ELSE /\ inserts < MaxInserts
            /\ LET db_category == NewCategory(categories, parent_id)
                   inserted == Put(categories, db_category.id, db_category)
                   updated == update_category_path(inserted, db_category)
               IN /\ categories' = Put(inserted, updated.id, updated)
                  /\ resp' = [op |-> "create_category", parent_id |-> parent_id,
                              status |-> 200, body |-> Some(updated)]
            /\ inserts' = inserts + 1
    /\ UNCHANGED <<buildings, companies, reqs>>

\* GET /categories/{category_id}
get_category(category_id) ==
    /\ resp' = IF category_id \in DOMAIN categories
               THEN [op |-> "get_category", category_id |-> category_id,
                     status |-> 200, body |-> Some(categories[category_id])]
               ELSE [op |-> "get_category", category_id |-> category_id,
                     status |-> 404, body |-> None]
    /\ UNCHANGED <<buildings, categories, companies, inserts, reqs>>

----------------------------------------------------------------------------
(* src/routers/companies.py *)

\* GET /companies/category/{category_id}; the body is the set of the ids of
\* the companies returned (the query is DISTINCT and unordered)
get_companies_by_category(category_id, include_subcategories, active_only) ==
    /\ resp' =
         IF category_id \notin DOMAIN categories
         THEN [op |-> "get_companies_by_category", category_id |-> category_id,
               include_subcategories |-> include_subcategories,
               status |-> 404, category_ids |-> <<>>, body |-> {}]
         ELSE LET category_ids ==
                      IF include_subcategories
                      THEN get_all_child_category_ids(categories, category_id)
                      ELSE <<category_id>>
              IN [op |-> "get_companies_by_category",
                  category_id |-> category_id,
                  include_subcategories |-> include_subcategories,
                  status |-> 200,
                  category_ids |-> category_ids,
                  body |-> {c \in DOMAIN companies :
                              /\ companies[c].categories \cap Range(category_ids) # {}
                              /\ active_only => companies[c].is_active = 1}]
    /\ UNCHANGED <<buildings, categories, companies, inserts, reqs>>

\* the rows of  db.query(Category).filter(Category.id.in_(category_ids))
CategoriesIn(category_ids) == DOMAIN categories \cap Range(category_ids)

\* "Convert phones for response" of the reading handlers
PhonesOf(phones) == IF phones # <<>> THEN Split(phones, ",") ELSE <<>>

\* POST /companies.  phones and category_ids have passed CompanyCreate:
\* both lists have at least one item.
create_company(phones, building_id, category_ids, is_active) ==
    LET request == [op |-> "create_company", phones |-> phones,
                    building_id |-> building_id,
                    category_ids |-> category_ids]
    IN
    /\ IF building_id \notin DOMAIN buildings
       THEN /\ resp' = request @@ [status |-> 404,
                                   detail |-> "Building not found"]
            /\ UNCHANGED <<companies, inserts>>
       ELSE IF Cardinality(CategoriesIn(category_ids)) # Len(category_ids)
       THEN /\ resp' = request @@ [status |-> 404,
                                   detail |-> "Categories not found"]
            /\ UNCHANGED <<companies, inserts>>
       ELSE /\ inserts < MaxRows
            /\ companies' = Put(companies, NextId(companies),
                                [phones |-> Join(phones, ","),
                                 building_id |-> building_id,
                                 is_active |-> IF is_active THEN 1 ELSE 0,
                                 categories |-> CategoriesIn(category_ids)])
            /\ resp' = request @@ [status |-> 200,
                                   id |-> NextId(companies),
                                   body_phones |-> Split(Join(phones, ","), ",")]
            /\ inserts' = inserts + 1
    /\ UNCHANGED <<buildings, categories, reqs>>

\* GET /companies/{company_id}
get_company(company_id) ==
    /\ resp' = IF company_id \notin DOMAIN companies
               THEN [op |-> "get_company", company_id |-> company_id,
                     status |-> 404, detail |-> "Company not found"]
               ELSE [op |-> "get_company", company_id |-> company_id,
                     status |-> 200,
                     body_phones |-> PhonesOf(companies[company_id].phones),
                     body_categories |-> companies[company_id].categories]
    /\ UNCHANGED <<buildings, categories, companies, inserts, reqs>>

\* the row update_company commits: the fields update_data sets, converted,
\* over the stored row
UpdatedCompany(db_company, update_data) ==
    [phones |-> IF update_data.phones # None
                THEN Join(update_data.phones[1], ",")
                ELSE db_company.phones,
     building_id |-> IF update_data.building_id # None
                     THEN update_data.building_id[1]
                     ELSE db_company.building_id,
     is_active |-> IF update_data.is_active # None
                   THEN (IF update_data.is_active[1] THEN 1 ELSE 0)
                   ELSE db_company.is_active,
     categories |-> IF update_data.category_ids # None
                    THEN CategoriesIn(update_data.category_ids[1])
                    ELSE db_company.categories]

\* PUT /companies/{company_id}.  update_data holds, for each field, None
\* when the request leaves it unset and Some(value) when it sets it.
update_company(company_id, update_data) ==
    LET request == [op |-> "update_company", id |-> company_id,
                    update_data |-> update_data]
    IN
    /\ IF company_id \notin DOMAIN companies
       THEN /\ resp' = request @@ [status |-> 404,
                                   detail |-> "Company not found"]
            /\ UNCHANGED companies
       ELSE IF /\ update_data.category_ids # None
               /\ Cardinality(CategoriesIn(update_data.category_ids[1]))
                     # Len(update_data.category_ids[1])
       THEN /\ resp' = request @@ [status |-> 404,
                                   detail |-> "Categories not found"]
            /\ UNCHANGED companies
       ELSE /\ companies' =
                 [companies EXCEPT ![company_id] =
                                      UpdatedCompany(@, update_data)]
            /\ resp' = request @@ [status |-> 200]
    /\ UNCHANGED <<buildings, categories, inserts, reqs>>

\* DELETE /companies/{company_id}
delete_company(company_id) ==
    /\ IF company_id \notin DOMAIN companies
       THEN /\ resp' = [op |-> "delete_company", status |-> 404,
                        detail |-> "Company not found"]
            /\ UNCHANGED companies
       ELSE /\ companies' = Without(companies, {company_id})
            /\ resp' = [op |-> "delete_company", status |-> 200,
                        id |-> company_id]
    /\ UNCHANGED <<buildings, categories, inserts, reqs>>

\* the sequences that list each element of a finite set once
Orderings(S) ==
    {seq \in [1..Cardinality(S) -> S] : \A i, j \in DOMAIN seq :
                                           i # j => seq[i] # seq[j]}

\* the rows of base_query: companies joined to their building, active ones
\* only when active_only
BaseQuery(active_only) ==
    {c \in DOMAIN companies :
        /\ companies[c].building_id \in DOMAIN buildings
        /\ active_only => companies[c].is_active = 1}

\* the test of the radius loop on one candidate's distance
WithinRadius_strict(distance, radius_km) == distance < radius_km

WithinRadius(distance, radius_km) == distance <= radius_km

RECURSIVE RadiusFilter(_, _, _, _)
\* the radius loop: filtered_companies, appended to in candidate order
RadiusFilter(candidates, latitude, longitude, radius_km) ==
    IF candidates = <<>> THEN <<>>
    ELSE LET company == Head(candidates)
             building == buildings[companies[company].building_id]
             distance == calculate_distance_haversine(
                             latitude, longitude,
                             building.latitude, building.longitude)
         IN (IF WithinRadius(distance, radius_km) THEN <<company>> ELSE <<>>)
            \o RadiusFilter(Tail(candidates), latitude, longitude, radius_km)

\* the rectangle predicate the store applies in the box branch
InBox(company, box) ==
    LET building == buildings[companies[company].building_id]
    IN /\ building.latitude >= box.min_lat[1]
       /\ building.latitude <= box.max_lat[1]
       /\ building.longitude >= box.min_lng[1]
       /\ building.longitude <= box.max_lng[1]

\* all(coord is not None for coord in [min_lat, max_lat, min_lng, max_lng])
BoxComplete(box) ==
    box.min_lat # None /\ box.max_lat # None /\ box.min_lng # None /\ box.max_lng # None

\* GET /companies/location.  radius_km is in metres here, like the
\* distances; box holds the four optional bounds.  The store returns the
\* rows of a query in an order of its choosing (candidates); queried tells
\* whether the handler ran a query on the store.
get_companies_by_location(latitude, longitude, radius_km, box, active_only) ==
    LET request == [op |-> "get_companies_by_location",
                    latitude |-> latitude, longitude |-> longitude,
                    radius_km |-> radius_km, box |-> box,
                    active_only |-> active_only]
        refused == [status |-> 400, queried |-> FALSE,
                    candidates |-> <<>>, body |-> <<>>]
    IN /\ IF radius_km # None
          THEN \E candidates \in Orderings(BaseQuery(active_only)) :
                  resp' = request @@
                      [status |-> 200, queried |-> TRUE,
                       candidates |-> candidates,
                       body |-> RadiusFilter(candidates, latitude, longitude,
                                             radius_km[1])]
          ELSE IF BoxComplete(box)
          THEN IF box.min_lat[1] >= box.max_lat[1]
                  \/ box.min_lng[1] >= box.max_lng[1]
               THEN resp' = request @@ refused
               ELSE \E candidates \in Orderings(BaseQuery(active_only)) :
                       resp' = request @@
                           [status |-> 200, queried |-> TRUE,
                            candidates |-> candidates,
                            body |-> SelectSeq(candidates,
                                               LAMBDA c : InBox(c, box))]
          ELSE resp' = request @@ refused
       /\ UNCHANGED <<buildings, categories, companies, inserts, reqs>>

----------------------------------------------------------------------------
(* src/routers/buildings.py *)

\* POST /buildings
create_building(latitude, longitude) ==
    /\ inserts < MaxRows
    /\ buildings' = Put(buildings, NextId(buildings),
                        [latitude |-> latitude, longitude |-> longitude])
    /\ resp' = [op |-> "create_building", status |-> 200,
                building_id |-> NextId(buildings)]
    /\ inserts' = inserts + 1
    /\ UNCHANGED <<categories, companies, reqs>>

\* companies_count of delete_building, counting the active companies only
CompaniesCount_active_only(building_id) ==
    Cardinality({c \in DOMAIN companies :
                    /\ companies[c].building_id = building_id
                    /\ companies[c].is_active = 1})

\* db.query(Company).filter(Company.building_id == building_id).count()
CompaniesCount(building_id) ==
    Cardinality({c \in DOMAIN companies : companies[c].building_id = building_id})

\* DELETE /buildings/{building_id}
delete_building(building_id) ==
    /\ IF building_id \notin DOMAIN buildings
       THEN /\ resp' = [op |-> "delete_building", building_id |-> building_id,
                        status |-> 404, detail |-> "Building not found"]
            /\ UNCHANGED buildings
       ELSE IF CompaniesCount(building_id) > 0
       THEN /\ resp' = [op |-> "delete_building", building_id |-> building_id,
                        status |-> 400, detail |-> "Cannot delete building"]
            /\ UNCHANGED buildings
       ELSE /\ buildings' = Without(buildings, {building_id})
            /\ resp' = [op |-> "delete_building", building_id |-> building_id,
                        status |-> 200, detail |-> "Building deleted successfully"]
    /\ UNCHANGED <<categories, companies, inserts, reqs>>

----------------------------------------------------------------------------
(* The service answering one request at a time: the category tree. *)

Init ==
    /\ buildings = EmptyTable
    /\ categories = EmptyTable
    /\ companies = EmptyTable
    /\ inserts = 0
    /\ reqs = <<>>
    /\ resp = [op |-> "none", status |-> 0]

\* the parent_id values requests carry: null, 0, ids of stored rows, and ids
\* of no row
ParentIds == {None} \cup {Some(i) : i \in {0, 1, 2, 9, 12, 99}}

\* the category ids read requests carry
CategoryIds == {1, 2, 99}

Next ==
    \/ \E parent_id \in ParentIds : create_category(parent_id)
    \/ generate_test_data
    \/ \E id \in CategoryIds : get_category(id)
    \/ \E id \in CategoryIds, inc \in BOOLEAN, act \in BOOLEAN :
          get_companies_by_category(id, inc, act)

Spec == Init /\ [][Next]_vars

----------------------------------------------------------------------------
(* Properties of the category tree, one request at a time (Spec). *)

\* the parent row of a stored category, when it has one
HasParent(c) == c.parent_id # None /\ c.parent_id[1] \in DOMAIN categories
Parent(c) == categories[c.parent_id[1]]

\* C1: after every request, every stored category with a parent P has
\* path = P.path + "/" + str(id) and level = P.level + 1, and every stored
\* category without a parent has path = str(id) and level = 0.
C1_PathLevelInvariant ==
    \A id \in DOMAIN categories :
        LET c == categories[id]
        IN IF HasParent(c)
           THEN /\ Parent(c).path # None
                /\ c.path = Some(Parent(c).path[1] \o <<"/">> \o str(id))
                /\ c.level = Parent(c).level + 1
           ELSE /\ c.path = Some(str(id))
                /\ c.level = 0

\* create_category has just stored a category two levels below a root
C1_Witness ==
    /\ resp.op = "create_category"
    /\ resp.status = 200
    /\ resp.body[1].level >= 2
    /\ resp.body[1].id \in DOMAIN categories

\* C3: a create_category request whose parent_id is a non-null integer that
\* is the id of no stored category is answered 404 and stores no row.
C3_MissingParentNotFound ==
    [][\A p \in ParentIds :
          ( /\ p # None
            /\ p[1] \notin DOMAIN categories
            /\ resp'.op = "create_category"
            /\ resp'.parent_id = p )
          => (resp'.status = 404 /\ categories' = categories)]_vars

RECURSIVE Subtree(_)
\* c and its transitive descendants, by a walk over the parent links
Subtree(c) ==
    {c} \cup UNION {Subtree(d) : d \in {k \in DOMAIN categories :
                                          categories[k].parent_id = Some(c)}}

StartsWithDelimited(q, p) ==
    /\ Len(q) > Len(p)
    /\ SubSeq(q, 1, Len(p) + 1) = p \o <<"/">>

\* C5: every id get_all_child_category_ids(c) lists besides c has a path
\* that starts with c.path + "/"; sharing leading characters is not enough.
C5_PrefixExact ==
    \A c \in DOMAIN categories :
        \A d \in Range(get_all_child_category_ids(categories, c)) :
            \/ d = c
            \/ /\ d \in DOMAIN categories
               /\ categories[d].path # None
               /\ categories[c].path # None
               /\ StartsWithDelimited(categories[d].path[1], categories[c].path[1])

\* a stored path begins with the characters of another stored path without
\* being below it ("12" and "1"), and its category is not listed
C5_Witness ==
    \E c \in DOMAIN categories, d \in DOMAIN categories :
        /\ c # d
        /\ categories[c].path # None /\ categories[d].path # None
        /\ Len(categories[d].path[1]) > Len(categories[c].path[1])
        /\ SubSeq(categories[d].path[1], 1, Len(categories[c].path[1]))
              = categories[c].path[1]
        /\ ~StartsWithDelimited(categories[d].path[1], categories[c].path[1])
        /\ d \notin Range(get_all_child_category_ids(categories, c))

----------------------------------------------------------------------------
(* The service answering create_category requests concurrently: each       *)
(* request has its own session, and the store changes at its commits.      *)
(* A request in flight is [parent_id, pc, db_category], db_category being   *)
(* the session's Category object once the row is inserted.                  *)

\* the request without the i-th in-flight request
Drop(seq, i) == SubSeq(seq, 1, i - 1) \o SubSeq(seq, i + 1, Len(seq))

\* create_category up to its insert: the parent lookup.  A request that
\* passes it is in flight; the inserts left are kept for the requests in
\* flight that have not inserted yet.
create_category_check(parent_id) ==
    IF ParentMissing(categories, parent_id)
    THEN /\ resp' = [op |-> "create_category", parent_id |-> parent_id,
                     status |-> 404, body |-> None]
         /\ UNCHANGED <<buildings, categories, companies, inserts, reqs>>
    ELSE /\ Len(reqs) < MaxInFlight
         /\ inserts + Cardinality({i \in DOMAIN reqs : reqs[i].pc = "insert"})
               < MaxInserts
         /\ reqs' = Append(reqs, [parent_id |-> parent_id, pc |-> "insert",
                                  db_category |-> None])
         /\ UNCHANGED <<buildings, categories, companies, inserts, resp>>

\* db.add(db_category); db.commit(); db.refresh(db_category): the row is in
\* the store, with its id, level 0 and no path
create_category_insert(i) ==
    /\ reqs[i].pc = "insert"
    /\ LET db_category == NewCategory(categories, reqs[i].parent_id)
       IN /\ categories' = Put(categories, db_category.id, db_category)
          /\ reqs' = [reqs EXCEPT ![i].pc = "path",
                                  ![i].db_category = Some(db_category)]
    /\ inserts' = inserts + 1
    /\ UNCHANGED <<buildings, companies, resp>>

\* update_category_path(db, db_category): the parent row is read and the
\* session's object changed; the store is not written yet
create_category_path(i) ==
    /\ reqs[i].pc = "path"
    /\ reqs' = [reqs EXCEPT
                  ![i].pc = "commit",
                  ![i].db_category =
                      Some(update_category_path(categories, reqs[i].db_category[1]))]
    /\ UNCHANGED <<buildings, categories, companies, inserts, resp>>

\* db.commit(); db.refresh(db_category); return db_category
create_category_commit(i) ==
    /\ reqs[i].pc = "commit"
    /\ LET db_category == reqs[i].db_category[1]
       IN /\ categories' = Put(categories, db_category.id, db_category)
          /\ resp' = [op |-> "create_category", parent_id |-> reqs[i].parent_id,
                      status |-> 200, body |-> Some(db_category)]
    /\ reqs' = Drop(reqs, i)
    /\ UNCHANGED <<buildings, companies, inserts>>

ConcParentIds == {None} \cup {Some(i) : i \in {0, 1, 2, 99}}

ConcCategoryIds == {1, 2, 99}

NextConc ==
    \/ \E parent_id \in ConcParentIds : create_category_check(parent_id)
    \/ \E i \in DOMAIN reqs : create_category_insert(i)
    \/ \E i \in DOMAIN reqs : create_category_path(i)
    \/ \E i \in DOMAIN reqs : create_category_commit(i)
    \/ \E id \in ConcCategoryIds : get_category(id)
    \/ \E id \in ConcCategoryIds, inc \in BOOLEAN, act \in BOOLEAN :
          get_companies_by_category(id, inc, act)

SpecConc == Init /\ [][NextConc]_vars

\* C2: no request reads a stored category whose path is not set yet: the
\* insert and the path update of one create_category become visible together.
C2_CreateIsAtomic ==
    (resp.op = "get_category" /\ resp.status = 200)
        => resp.body[1].path # None

\* C6: for every category id, stored or not, with its path set or not, the
\* list get_all_child_category_ids returns contains that id.
C6_Reflexive ==
    \A id \in 0..NextId(categories) :
        id \in Range(get_all_child_category_ids(categories, id))

\* a subtree request has been answered for a stored category whose path is
\* not set, and the answer lists the category
C6_Witness ==
    /\ resp.op = "get_companies_by_category"
    /\ resp.status = 200
    /\ resp.include_subcategories
    /\ categories[resp.category_id].path = None
    /\ resp.category_id \in Range(resp.category_ids)

\* C16: once no create_category request is in flight, every stored
\* category with a parent P has path = P.path + "/" + str(id) and
\* level = P.level + 1, however the requests were interleaved.
C16_SettledPathLevel ==
    reqs = <<>> =>
        \A id \in DOMAIN categories :
            LET c == categories[id]
            IN HasParent(c) =>
                  /\ c.path # None /\ Parent(c).path # None
                  /\ c.path[1] = Parent(c).path[1] \o <<"/">> \o str(id)
                  /\ c.level = Parent(c).level + 1

----------------------------------------------------------------------------
(* The service answering one request at a time: buildings, companies and   *)
(* the location search.                                                    *)

\* building positions: about 3 km and about 50 km north of the origin
Points == {<<55778200, 37618400>>, <<56201200, 37618400>>}

\* search origins (latitude, longitude)
Origins == {<<55751200, 37618400>>}

\* radius_km: not given, or the exact distance of the nearer position from
\* the origin
Radii == {None, Some(3002)}

Box(min_lat, max_lat, min_lng, max_lng) ==
    [min_lat |-> min_lat, max_lat |-> max_lat,
     min_lng |-> min_lng, max_lng |-> max_lng]

NoBox == Box(None, None, None, None)

\* one bound given
PartBox == Box(Some(55700000), None, None, None)

\* a rectangle around the nearer position
NearBox == Box(Some(55700000), Some(55800000), Some(37600000), Some(37700000))

\* rectangles with min_lat = max_lat, and with min_lng > max_lng
FlatBox == Box(Some(55800000), Some(55800000), Some(37600000), Some(37700000))
BackBox == Box(Some(55700000), Some(55800000), Some(37700000), Some(37600000))

\* the search areas requests name, as <<radius_km, box>>: a box of each kind
\* alone; the radius alone, with an incomplete box, with a full valid box
\* and with a full invalid box
Areas ==
    {<<None, box>> : box \in {NoBox, PartBox, NearBox, FlatBox, BackBox}}
        \cup {<<r, box>> : r \in Radii \ {None},
                            box \in {NoBox, PartBox, NearBox, BackBox}}

\* ids requests name: rows that can exist, and 9, the id of no row
BuildingIds == {1, 2, 9}
CompanyIds == {1, 2, 9}
CategoryIdLists == {<<1>>, <<9>>}

Update(phones, building_id, is_active, category_ids) ==
    [phones |-> phones, building_id |-> building_id,
     is_active |-> is_active, category_ids |-> category_ids]

\* partial updates: the active flag alone, the building alone (update_company
\* looks no building up, so the building may be one that is not stored)
Updates ==
    {Update(None, None, Some(FALSE), None), Update(None, Some(9), None, None)}

\* the store once a first root category has been created, and nothing else
InitDirectory ==
    /\ buildings = EmptyTable
    /\ categories =
          LET db_category == NewCategory(EmptyTable, None)
              inserted == Put(EmptyTable, db_category.id, db_category)
          IN Put(inserted, db_category.id,
                 update_category_path(inserted, db_category))
    /\ companies = EmptyTable
    /\ inserts = 0
    /\ reqs = <<>>
    /\ resp = [op |-> "none", status |-> 0]

NextDirectory ==
    \/ \E p \in Points : create_building(p[1], p[2])
    \/ \E b \in BuildingIds : delete_building(b)
    \/ \E b \in BuildingIds, ids \in CategoryIdLists, a \in BOOLEAN :
          create_company(<<str(1)>>, b, ids, a)
    \/ \E c \in CompanyIds, u \in Updates : update_company(c, u)
    \/ \E c \in CompanyIds : delete_company(c)
    \/ \E o \in Origins, area \in Areas, a \in BOOLEAN :
          get_companies_by_location(o[1], o[2], area[1], area[2], a)

SpecDirectory == InitDirectory /\ [][NextDirectory]_vars

\* C7: delete_building on a stored building is refused with the conflict
\* error (status 400, "Cannot delete building") and leaves the building
\* stored when a company, active or not, references it; it succeeds and
\* removes the building when no company references it.
C7_DeleteBuildingConflict ==
    [][\A b \in DOMAIN buildings :
          (resp'.op = "delete_building" /\ resp'.building_id = b)
          => IF \E c \in DOMAIN companies : companies[c].building_id = b
             THEN /\ resp'.status = 400
                  /\ resp'.detail = "Cannot delete building"
                  /\ buildings' = buildings
             ELSE /\ resp'.status = 200
                  /\ b \notin DOMAIN buildings'
                  /\ buildings' = Without(buildings, {b})]_vars

\* the deletion of a building was refused while only inactive companies
\* reference it
C7_Witness ==
    /\ resp.op = "delete_building"
    /\ resp.status = 400
    /\ resp.building_id \in DOMAIN buildings
    /\ \E c \in DOMAIN companies : companies[c].building_id = resp.building_id
    /\ \A c \in DOMAIN companies :
          companies[c].building_id = resp.building_id => companies[c].is_active = 0

\* some, but not all, of the four bounds are given
BoxIncomplete(box) ==
    /\ ~BoxComplete(box)
    /\ box # NoBox

\* C8: the location search accepts a request only when exactly one of
\* radius_km and a complete bounding box is given; a request with neither,
\* or with an incomplete box, is answered 400.
C8_ExactlyOneSearchArea ==
    resp.op = "get_companies_by_location" =>
        /\ resp.status = 200
              => ((resp.radius_km # None) # BoxComplete(resp.box))
        /\ (resp.radius_km = None /\ ~BoxComplete(resp.box)) => resp.status = 400
        /\ BoxIncomplete(resp.box) => resp.status = 400

\* C9: whenever a complete bounding box is given, a box with
\* min_lat >= max_lat or min_lng >= max_lng makes the request fail with 400
\* before any query is run on the store.
C9_InvalidBoxRejected ==
    ( /\ resp.op = "get_companies_by_location"
      /\ BoxComplete(resp.box)
      /\ \/ resp.box.min_lat[1] >= resp.box.max_lat[1]
         \/ resp.box.min_lng[1] >= resp.box.max_lng[1] )
    => (resp.status = 400 /\ ~resp.queried)

\* the distance of a stored company's building from the origin of the
\* request answered last
DistanceOf(c) ==
    calculate_distance_haversine(resp.latitude, resp.longitude,
                                 buildings[companies[c].building_id].latitude,
                                 buildings[companies[c].building_id].longitude)

\* the place of a company in a sequence that lists it once
IndexOf(seq, c) == CHOOSE i \in DOMAIN seq : seq[i] = c

\* C10: the answer to a radius search is exactly the candidates (the
\* companies with a building that pass the active filter) whose building is
\* at most radius_km from the origin, each once, in the candidates' order.
C10_RadiusFilterExact ==
    ( /\ resp.op = "get_companies_by_location"
      /\ resp.radius_km # None )
    => /\ resp.status = 200
       /\ Range(resp.candidates) =
             {c \in DOMAIN companies :
                 /\ companies[c].building_id \in DOMAIN buildings
                 /\ resp.active_only => companies[c].is_active = 1}
       /\ Range(resp.body) =
             {c \in Range(resp.candidates) : DistanceOf(c) <= resp.radius_km[1]}
       /\ Len(resp.body) = Cardinality(Range(resp.body))
       /\ \A i, j \in DOMAIN resp.body :
             i < j => IndexOf(resp.candidates, resp.body[i])
                         < IndexOf(resp.candidates, resp.body[j])

\* a radius search over the active companies, a stored company not among
\* them, kept two candidates exactly at the radius in the order the store
\* listed them, which is not the order of their ids
C10_Witness ==
    /\ resp.op = "get_companies_by_location"
    /\ resp.radius_km # None
    /\ resp.active_only
    /\ \E c \in DOMAIN companies : c \notin Range(resp.candidates)
    /\ Len(resp.body) = 2
    /\ resp.body[1] > resp.body[2]
    /\ \A c \in Range(resp.body) : DistanceOf(c) = resp.radius_km[1]

----------------------------------------------------------------------------
(* The service answering one request at a time: companies written and     *)
(* read back.                                                              *)

\* companies stored in one run of the company requests
MaxCompanies == 2

\* phones of a create request: one number, two numbers, one number that
\* holds a comma, and one empty number
PhoneLists ==
    {<<str(1)>>, <<str(1), str(2)>>, <<str(1) \o <<",">> \o str(2)>>,
     <<<<>>>>}

\* category_ids of a create request: the stored category once, the stored
\* category twice, and the id of no category
CreateCategoryIdLists == {<<1>>, <<1, 1>>, <<9>>}

\* partial updates: phones alone (to no number, to one number), category_ids
\* alone (to no category, to a category that is not stored), the building
\* alone (to a building that is not stored)
CompanyUpdates ==
    {Update(Some(<<>>), None, None, None),
     Update(Some(<<str(2)>>), None, None, None),
     Update(None, None, None, Some(<<>>)),
     Update(None, None, None, Some(<<9>>)),
     Update(None, Some(9), None, None)}

NextCompany ==
    \/ \E p \in {<<55778200, 37618400>>} : create_building(p[1], p[2])
    \/ /\ Cardinality(DOMAIN companies) < MaxCompanies
       /\ \E phones \in PhoneLists, b \in {1, 9},
             ids \in CreateCategoryIdLists :
             create_company(phones, b, ids, TRUE)
    \/ \E c \in {1, 2, 9}, u \in CompanyUpdates : update_company(c, u)
    \/ \E c \in {1, 2, 9} : get_company(c)

SpecCompany == InitDirectory /\ [][NextCompany]_vars

\* C11: a get_company that directly follows the successful create_company
\* of the same company returns the phone list of the create request: the
\* same numbers, as many, in the same order.
C11_PhonesRoundTrip ==
    [][(/\ resp.op = "create_company" /\ resp.status = 200
        /\ resp'.op = "get_company" /\ resp'.status = 200
        /\ resp'.company_id = resp.id)
       => resp'.body_phones = resp.phones]_vars

\* a request names a building (an Optional id) or a category (an Optional
\* list of ids) that the store does not hold
ReferenceMissing(building_id, category_ids) ==
    \/ building_id # None /\ building_id[1] \notin DOMAIN buildings
    \/ /\ category_ids # None
       /\ \E id \in Range(category_ids[1]) : id \notin DOMAIN categories

\* C12: a create_company or update_company request that names a building
\* id or a category id the store does not hold is answered NotFound (404)
\* and leaves the companies, with their associations, as they were.
C12_MissingReferenceNotFound ==
    [][(\/ /\ resp'.op = "create_company"
           /\ ReferenceMissing(Some(resp'.building_id),
                                Some(resp'.category_ids))
        \/ /\ resp'.op = "update_company"
           /\ ReferenceMissing(resp'.update_data.building_id,
                                resp'.update_data.category_ids))
       => (resp'.status = 404 /\ companies' = companies)]_vars

\* C14: every stored company has at least one phone number (the list the
\* reading handlers return for it is not empty) and at least one
\* associated category.
C14_PhoneAndCategoryKept ==
    \A c \in DOMAIN companies :
        /\ PhonesOf(companies[c].phones) # <<>>
        /\ companies[c].categories # {}

\* C18: a create_company request whose building is stored and whose
\* category_ids are all ids of stored categories, whether or not an id is
\* listed more than once, is answered 200 and its company is stored with
\* that building and those categories.
C18_CreateWithStoredReferences ==
    [][(/\ resp'.op = "create_company"
        /\ ~ReferenceMissing(Some(resp'.building_id),
                              Some(resp'.category_ids)))
       => /\ resp'.status = 200
          /\ resp'.id \in DOMAIN companies' \ DOMAIN companies
          /\ companies'[resp'.id].building_id = resp'.building_id
          /\ companies'[resp'.id].categories = Range(resp'.category_ids)]_vars

----------------------------------------------------------------------------
(* Test-data generation commit by commit (src/routers/test_data.py).  The  *)
(* request in flight is reqs[1]: pc names the commit it reaches next and   *)
(* before is the store as the request found it.  What a step adds to the   *)
(* session is committed by that step; a failure rolls back what is not     *)
(* committed, so the store stays as the last commit left it.               *)

Store ==
    [buildings |-> buildings, categories |-> categories,
     companies |-> companies]

\* the category rows committed so far: those of ids 1..upto, the rows of
\* pathless added with their level and no path yet
GenCategories(upto, pathless) ==
    [id \in 1..upto |->
        IF id \in pathless THEN [TestCategories[id] EXCEPT !.path = None]
        ELSE TestCategories[id]]

GenAt(pc) == reqs # <<>> /\ reqs[1].pc = pc

GenGoto(pc) == reqs' = <<[reqs[1] EXCEPT !.pc = pc]>>

\* the request enters the try block
generate_test_data_begin ==
    /\ reqs = <<>>
    /\ reqs' = <<[op |-> "generate_test_data", pc |-> "clear",
                  before |-> Store]>>
    /\ UNCHANGED <<buildings, categories, companies, inserts, resp>>

\* the four deletes and the first commit
generate_test_data_clear ==
    /\ GenAt("clear")
    /\ buildings' = EmptyTable
    /\ categories' = EmptyTable
    /\ companies' = EmptyTable
    /\ GenGoto("buildings")
    /\ UNCHANGED <<inserts, resp>>

\* the five buildings
generate_test_data_buildings ==
    /\ GenAt("buildings")
    /\ buildings' = TestBuildings
    /\ GenGoto("roots")
    /\ UNCHANGED <<categories, companies, inserts, resp>>

\* the three root categories, constructed with their paths
generate_test_data_roots ==
    /\ GenAt("roots")
    /\ categories' = GenCategories(3, {})
    /\ GenGoto("food")
    /\ UNCHANGED <<buildings, companies, inserts, resp>>

\* the root paths written again from the ids, and the three subcategories
\* of food, constructed with level 1 and no path
generate_test_data_food ==
    /\ GenAt("food")
    /\ categories' = GenCategories(6, 4..6)
    /\ GenGoto("auto")
    /\ UNCHANGED <<buildings, companies, inserts, resp>>

\* the paths of the food subcategories, and the three subcategories of
\* auto, constructed with level 1 and no path
generate_test_data_auto ==
    /\ GenAt("auto")
    /\ categories' = GenCategories(9, 7..9)
    /\ GenGoto("parts")
    /\ UNCHANGED <<buildings, companies, inserts, resp>>

\* the paths of the auto subcategories, and the two subcategories of
\* parts, constructed with level 2 and no path
generate_test_data_parts ==
    /\ GenAt("parts")
    /\ categories' = GenCategories(11, 10..11)
    /\ GenGoto("paths")
    /\ UNCHANGED <<buildings, companies, inserts, resp>>

\* the paths of the subcategories of parts
generate_test_data_paths ==
    /\ GenAt("paths")
    /\ categories' = GenCategories(11, {})
    /\ GenGoto("companies")
    /\ UNCHANGED <<buildings, companies, inserts, resp>>

\* the six companies with their categories
generate_test_data_companies ==
    /\ GenAt("companies")
    /\ companies' = TestCompanies
    /\ GenGoto("return")
    /\ UNCHANGED <<buildings, categories, inserts, resp>>

\* the counts, and the response
generate_test_data_return ==
    /\ GenAt("return")
    /\ resp' = [op |-> "generate_test_data", status |-> 200]
    /\ reqs' = <<>>
    /\ UNCHANGED <<buildings, categories, companies, inserts>>

\* an exception anywhere in the try block: db.rollback() discards what the
\* session has not committed, and the request is answered 500
generate_test_data_except ==
    /\ reqs # <<>>
    /\ resp' = [op |-> "generate_test_data", status |-> 500]
    /\ reqs' = <<>>
    /\ UNCHANGED <<buildings, categories, companies, inserts>>

\* parent ids of the create_category requests between generations
GenParentIds == {None, Some(1), Some(4), Some(99)}

NextGen ==
    \/ \E p \in GenParentIds : create_category(p)
    \/ generate_test_data_begin
    \/ generate_test_data_clear
    \/ generate_test_data_buildings
    \/ generate_test_data_roots
    \/ generate_test_data_food
    \/ generate_test_data_auto
    \/ generate_test_data_parts
    \/ generate_test_data_paths
    \/ generate_test_data_companies
    \/ generate_test_data_return
    \/ generate_test_data_except

SpecGen == Init /\ [][NextGen]_vars

\* C13: when generate_test_data fails (it is answered 500), the store is
\* left exactly as the request found it: the buildings, categories and
\* companies stored before are still stored and no generated row is.
C13_GenerateAllOrNothing ==
    [][(/\ reqs # <<>> /\ reqs' = <<>>
        /\ resp'.op = "generate_test_data" /\ resp'.status = 500)
       => Store' = reqs[1].before]_vars

----------------------------------------------------------------------------
(* Company and building requests interleaved: every lookup and every       *)
(* commit of a handler is a step of its own, and the steps of the requests *)
(* in flight (reqs) run in any order.  The SQLite connection of db.py      *)
(* enforces no foreign key, so a commit writes what the session holds.     *)

InFlight(op) == Cardinality({i \in DOMAIN reqs : reqs[i].op = op})

\* create_company: the building lookup.  A request that passes it is in
\* flight; the inserts left are kept for those in flight.
create_company_building(phones, building_id, category_ids, is_active) ==
    IF building_id \notin DOMAIN buildings
    THEN /\ resp' = [op |-> "create_company", phones |-> phones,
                     building_id |-> building_id,
                     category_ids |-> category_ids,
                     status |-> 404, detail |-> "Building not found"]
         /\ UNCHANGED <<buildings, categories, companies, inserts, reqs>>
    ELSE /\ Len(reqs) < MaxInFlight
         /\ inserts + InFlight("create_company") < MaxRows
         /\ reqs' = Append(reqs, [op |-> "create_company",
                                  pc |-> "categories", phones |-> phones,
                                  building_id |-> building_id,
                                  category_ids |-> category_ids,
                                  is_active |-> is_active,
                                  categories |-> {}])
         /\ UNCHANGED <<buildings, categories, companies, inserts, resp>>

\* create_company: the category lookup and the test of its length
create_company_categories(i) ==
    /\ reqs[i].op = "create_company" /\ reqs[i].pc = "categories"
    /\ IF Cardinality(CategoriesIn(reqs[i].category_ids))
             # Len(reqs[i].category_ids)
       THEN /\ resp' = [op |-> "create_company", phones |-> reqs[i].phones,
                        building_id |-> reqs[i].building_id,
                        category_ids |-> reqs[i].category_ids,
                        status |-> 404, detail |-> "Categories not found"]
            /\ reqs' = Drop(reqs, i)
       ELSE /\ reqs' = [reqs EXCEPT ![i] =
                          [@ EXCEPT !.pc = "commit",
                                    !.categories =
                                        CategoriesIn(reqs[i].category_ids)]]
            /\ UNCHANGED resp
    /\ UNCHANGED <<buildings, categories, companies, inserts>>

\* create_company: db.add(db_company); db.commit() and the response
create_company_commit(i) ==
    /\ reqs[i].op = "create_company" /\ reqs[i].pc = "commit"
    /\ companies' = Put(companies, NextId(companies),
                        [phones |-> Join(reqs[i].phones, ","),
                         building_id |-> reqs[i].building_id,
                         is_active |-> IF reqs[i].is_active THEN 1 ELSE 0,
                         categories |-> reqs[i].categories])
    /\ resp' = [op |-> "create_company", phones |-> reqs[i].phones,
                building_id |-> reqs[i].building_id,
                category_ids |-> reqs[i].category_ids,
                status |-> 200, id |-> NextId(companies),
                body_phones |-> Split(Join(reqs[i].phones, ","), ",")]
    /\ inserts' = inserts + 1
    /\ reqs' = Drop(reqs, i)
    /\ UNCHANGED <<buildings, categories>>

\* update_company: the company lookup; db_company is the row as loaded
update_company_lookup(company_id, update_data) ==
    IF company_id \notin DOMAIN companies
    THEN /\ resp' = [op |-> "update_company", id |-> company_id,
                     update_data |-> update_data,
                     status |-> 404, detail |-> "Company not found"]
         /\ UNCHANGED <<buildings, categories, companies, inserts, reqs>>
    ELSE /\ Len(reqs) < MaxInFlight
         /\ reqs' = Append(reqs, [op |-> "update_company",
                                  pc |-> IF update_data.category_ids # None
                                         THEN "categories" ELSE "commit",
                                  id |-> company_id,
                                  update_data |-> update_data,
                                  db_company |-> companies[company_id]])
         /\ UNCHANGED <<buildings, categories, companies, inserts, resp>>

\* update_company: the category lookup of a request that sets category_ids
update_company_categories(i) ==
    /\ reqs[i].op = "update_company" /\ reqs[i].pc = "categories"
    /\ IF Cardinality(CategoriesIn(reqs[i].update_data.category_ids[1]))
             # Len(reqs[i].update_data.category_ids[1])
       THEN /\ resp' = [op |-> "update_company", id |-> reqs[i].id,
                        update_data |-> reqs[i].update_data,
                        status |-> 404, detail |-> "Categories not found"]
            /\ reqs' = Drop(reqs, i)
       ELSE /\ reqs' = [reqs EXCEPT ![i] = [@ EXCEPT !.pc = "commit"]]
            /\ UNCHANGED resp
    /\ UNCHANGED <<buildings, categories, companies, inserts>>

\* the stored row after the flush of an update: the session writes the
\* attributes whose new value differs from the one it loaded (db_company)
\* and leaves the others as the store has them
Flushed(row, db_company, update_data) ==
    LET updated == UpdatedCompany(db_company, update_data)
    IN [f \in DOMAIN row |->
            IF updated[f] # db_company[f] THEN updated[f] ELSE row[f]]

\* update_company: the setattr loop, db.commit() and db.refresh().  When
\* the row has been deleted since the lookup the session raises (a stale
\* UPDATE, or a refresh that finds no row) and the request is answered 500.
update_company_commit(i) ==
    /\ reqs[i].op = "update_company" /\ reqs[i].pc = "commit"
    /\ IF reqs[i].id \notin DOMAIN companies
       THEN /\ resp' = [op |-> "update_company", id |-> reqs[i].id,
                        update_data |-> reqs[i].update_data, status |-> 500]
            /\ UNCHANGED companies
       ELSE /\ companies' =
                 [companies EXCEPT ![reqs[i].id] =
                     Flushed(@, reqs[i].db_company, reqs[i].update_data)]
            /\ resp' = [op |-> "update_company", id |-> reqs[i].id,
                        update_data |-> reqs[i].update_data, status |-> 200]
    /\ reqs' = Drop(reqs, i)
    /\ UNCHANGED <<buildings, categories, inserts>>

\* delete_company: the company lookup
delete_company_lookup(company_id) ==
    IF company_id \notin DOMAIN companies
    THEN /\ resp' = [op |-> "delete_company", status |-> 404,
                     detail |-> "Company not found"]
         /\ UNCHANGED <<buildings, categories, companies, inserts, reqs>>
    ELSE /\ Len(reqs) < MaxInFlight
         /\ reqs' = Append(reqs, [op |-> "delete_company", pc |-> "commit",
                                  id |-> company_id])
         /\ UNCHANGED <<buildings, categories, companies, inserts, resp>>

\* delete_company: db.delete(db_company); db.commit().  A DELETE that
\* matches no row any more is not an error.
delete_company_commit(i) ==
    /\ reqs[i].op = "delete_company" /\ reqs[i].pc = "commit"
    /\ companies' = Without(companies, {reqs[i].id})
    /\ resp' = [op |-> "delete_company", status |-> 200, id |-> reqs[i].id]
    /\ reqs' = Drop(reqs, i)
    /\ UNCHANGED <<buildings, categories, inserts>>

\* delete_building: the building lookup
delete_building_lookup(building_id) ==
    IF building_id \notin DOMAIN buildings
    THEN /\ resp' = [op |-> "delete_building", building_id |-> building_id,
                     status |-> 404, detail |-> "Building not found"]
         /\ UNCHANGED <<buildings, categories, companies, inserts, reqs>>
    ELSE /\ Len(reqs) < MaxInFlight
         /\ reqs' = Append(reqs, [op |-> "delete_building", pc |-> "count",
                                  building_id |-> building_id,
                                  cascade |-> {}])
         /\ UNCHANGED <<buildings, categories, companies, inserts, resp>>

\* delete_building: companies_count and its test
delete_building_count(i) ==
    /\ reqs[i].op = "delete_building" /\ reqs[i].pc = "count"
    /\ IF CompaniesCount(reqs[i].building_id) > 0
       THEN /\ resp' = [op |-> "delete_building",
                        building_id |-> reqs[i].building_id,
                        status |-> 400, detail |-> "Cannot delete building"]
            /\ reqs' = Drop(reqs, i)
       ELSE /\ reqs' = [reqs EXCEPT ![i] = [@ EXCEPT !.pc = "delete"]]
            /\ UNCHANGED resp
    /\ UNCHANGED <<buildings, categories, companies, inserts>>

\* delete_building: db.delete(db_building) loads Building.companies, the
\* rows the delete cascades to (cascade="all, delete-orphan")
delete_building_delete(i) ==
    /\ reqs[i].op = "delete_building" /\ reqs[i].pc = "delete"
    /\ reqs' = [reqs EXCEPT ![i] =
                  [@ EXCEPT !.pc = "commit",
                            !.cascade =
                                {c \in DOMAIN companies :
                                    companies[c].building_id
                                        = reqs[i].building_id}]]
    /\ UNCHANGED <<buildings, categories, companies, inserts, resp>>

\* delete_building: db.commit() deletes the building and the companies
\* loaded with it
delete_building_commit(i) ==
    /\ reqs[i].op = "delete_building" /\ reqs[i].pc = "commit"
    /\ buildings' = Without(buildings, {reqs[i].building_id})
    /\ companies' = Without(companies, reqs[i].cascade)
    /\ resp' = [op |-> "delete_building",
                building_id |-> reqs[i].building_id,
                status |-> 200, detail |-> "Building deleted successfully"]
    /\ reqs' = Drop(reqs, i)
    /\ UNCHANGED <<categories, inserts>>

\* partial updates of the interleaved runs: the building alone (to one
\* that is not stored), category_ids alone (to the stored category, to one
\* that is not stored)
RaceUpdates ==
    {Update(None, Some(9), None, None),
     Update(None, None, None, Some(<<1>>)),
     Update(None, None, None, Some(<<9>>))}

NextRace ==
    \/ /\ reqs = <<>>
       /\ \E p \in {<<55778200, 37618400>>} : create_building(p[1], p[2])
    \/ \E b \in {1, 9}, ids \in CategoryIdLists :
          create_company_building(<<str(1)>>, b, ids, TRUE)
    \/ \E i \in DOMAIN reqs : create_company_categories(i)
    \/ \E i \in DOMAIN reqs : create_company_commit(i)
    \/ \E c \in {1, 9}, u \in RaceUpdates : update_company_lookup(c, u)
    \/ \E i \in DOMAIN reqs : update_company_categories(i)
    \/ \E i \in DOMAIN reqs : update_company_commit(i)
    \/ \E c \in {1, 9} : delete_company_lookup(c)
    \/ \E i \in DOMAIN reqs : delete_company_commit(i)
    \/ \E b \in {1, 9} : delete_building_lookup(b)
    \/ \E i \in DOMAIN reqs : delete_building_count(i)
    \/ \E i \in DOMAIN reqs : delete_building_delete(i)
    \/ \E i \in DOMAIN reqs : delete_building_commit(i)

SpecRace == InitDirectory /\ [][NextRace]_vars

\* C15: in every state of the interleaved runs, the building_id of every
\* stored company is the id of a stored building.
C15_CompanyBuildingStored ==
    \A c \in DOMAIN companies :
        companies[c].building_id \in DOMAIN buildings

----------------------------------------------------------------------------
(* The level of a category against the delimiters of its path. *)

\* the number of "/" delimiters in a path
Slashes(path) == Cardinality({i \in DOMAIN path : path[i] = "/"})

\* C17: in every reachable state, every stored category whose path is set
\* has level equal to the number of "/" delimiters in its path, and every
\* stored category whose path is not set yet has level 0.
C17_LevelCountsDelimiters ==
    \A id \in DOMAIN categories :
        LET c == categories[id]
        IN IF c.path # None THEN c.level = Slashes(c.path[1])
           ELSE c.level = 0

====
